---- MODULE Spec2Model ----
(***************************************************************************)
(* Model of src/src/main.cpp: the schema-driven XML <-> NodeData engine.   *)
(*                                                                         *)
(* A pugi::xml_node handle is a record [null, name, attrs, text, children];*)
(* the null handle is NullNode.  text = "" is an element without PCDATA    *)
(* (xml_text::empty()).  A descriptor is a record [kind, name, args]; the  *)
(* template parameter pack Args... is the sequence args, which holds the   *)
(* Required marker where the schema passes Required().                     *)
(***************************************************************************)
EXTENDS Naturals, Sequences, FiniteSets

(***************************************************************************)
(* Bounds of the model.                                                    *)
(***************************************************************************)
\* the largest number of child elements of the document element
MaxChildren == 3
\* the largest number of nested records of a hand-built NodeData
MaxRecChildren == 1

(***************************************************************************)
(* Maps (std::map) as functions.                                           *)
(***************************************************************************)
EmptyMap == [k \in {} |-> ""]

Put(m, k, v) == [x \in (DOMAIN m) \cup {k} |-> IF x = k THEN v ELSE m[x]]

(***************************************************************************)
(* struct NodeData, default constructed.                                   *)
(***************************************************************************)
NodeData == [name |-> "", text |-> "", subnodes |-> EmptyMap, attributes |-> EmptyMap]

(***************************************************************************)
(* Descriptors.                                                            *)
(***************************************************************************)
Required == [kind |-> "Required", name |-> "", args |-> <<>>]

Attribute(name, args) == [kind |-> "Attribute", name |-> name, args |-> args]

Text(args) == [kind |-> "Text", name |-> "", args |-> args]

Node(name, args) == [kind |-> "Node", name |-> name, args |-> args]

NodeList(node) == [kind |-> "NodeList", name |-> "", args |-> <<node>>]

\* is_required_v<Args...>: some argument is the Required marker
is_required_v(args) == \E i \in 1..Len(args) : args[i].kind = "Required"

\* NodeName<SubNodeType>::name of a list's inner descriptor
NodeName(list) == list.args[1].name

(***************************************************************************)
(* Tree handles of the collaborator.                                       *)
(***************************************************************************)
NullNode == [null |-> TRUE, name |-> "", attrs |-> EmptyMap, text |-> "", children |-> <<>>]

Element(name, attrs, text, children) ==
    [null |-> FALSE, name |-> name, attrs |-> attrs, text |-> text, children |-> children]

\* xml_node::child(name): the first child of that name, or the null handle
child(node, name) ==
    LET hits == {i \in 1..Len(node.children) : node.children[i].name = name}
    IN  IF hits = {} THEN NullNode
        ELSE node.children[CHOOSE i \in hits : \A j \in hits : i <= j]

\* xml_node::children(name): the children of that name, in document order
children(node, name) == SelectSeq(node.children, LAMBDA c : c.name = name)

\* xml_node::append_child: a non-null parent gets the node as its last child
append_child(parent, node) == [parent EXCEPT !.children = Append(@, node)]

(***************************************************************************)
(* Errors (the std::runtime_error messages).                               *)
(***************************************************************************)
NoError == [kind |-> "none", name |-> "", actual |-> ""]

MissingRequiredAttribute(name) == [kind |-> "MissingRequiredAttribute", name |-> name, actual |-> ""]

MissingRequiredText == [kind |-> "MissingRequiredText", name |-> "", actual |-> ""]

MissingRequiredNode(name) == [kind |-> "MissingRequiredNode", name |-> name, actual |-> ""]

NodeNameMismatch(expected, actual) == [kind |-> "NodeNameMismatch", name |-> expected, actual |-> actual]

(***************************************************************************)
(* The state a parse call threads through the walk: the record being       *)
(* filled, the exception in flight, what was written to std::cout and the  *)
(* descriptor steps taken so far.                                          *)
(***************************************************************************)
Walk(data) == [data |-> data, err |-> NoError, out |-> <<>>, log |-> <<>>]

\* a throw: the exception in flight ends every later step
Throw(st, e) == [st EXCEPT !.err = e]

\* Running, had the walk caught the exception and gone on to the next descriptor
RunningAfterThrow(st) == TRUE

\* a step runs only while no exception is in flight
Running(st) == st.err = NoError

Step(st, op, desc) == [st EXCEPT !.log = Append(@, <<op, desc.kind, desc.name>>)]

\* the same step taken for each of n handles
Steps(st, op, desc, n) ==
    [st EXCEPT !.log = @ \o [i \in 1..n |-> <<op, desc.kind, desc.name>>]]

(***************************************************************************)
(* Attribute<name, Args...>                                                *)
(***************************************************************************)
\* AttributeWalk, had parse stored the name under the value
AttributeWalkSwapped(desc, st, node) ==
    LET s1 == Step(Step(st, "locate", desc), "validate", desc)
    IN  IF desc.name \notin DOMAIN node.attrs
        THEN IF is_required_v(desc.args)
             THEN Throw(s1, MissingRequiredAttribute(desc.name))
             ELSE s1
        ELSE [Step(s1, "parse", desc) EXCEPT
                 !.data.attributes = Put(@, node.attrs[desc.name], desc.name)]

\* Attribute::subnode then Attribute::validate then Attribute::parse
AttributeWalk(desc, st, node) ==
    LET s1 == Step(Step(st, "locate", desc), "validate", desc)
    IN  IF desc.name \notin DOMAIN node.attrs
        THEN IF is_required_v(desc.args)
             THEN Throw(s1, MissingRequiredAttribute(desc.name))
             ELSE s1
        ELSE [Step(s1, "parse", desc) EXCEPT
                 !.data.attributes = Put(@, desc.name, node.attrs[desc.name])]

\* the line Text::subnode writes: "Node: " and the handle's id attribute
TextSubnodeOutput(node) ==
    <<"Node: ", IF "id" \in DOMAIN node.attrs THEN node.attrs["id"] ELSE "">>

\* TextWalk, had validate returned false for every empty text
TextWalkLenient(desc, st, node) ==
    LET s0 == [Step(st, "locate", desc) EXCEPT !.out = Append(@, TextSubnodeOutput(node))]
        s1 == Step(s0, "validate", desc)
    IN  IF node.text = "" THEN s1
        ELSE [Step(s1, "parse", desc) EXCEPT !.data.text = node.text]

\* Text::subnode then Text::validate then Text::parse
TextWalk(desc, st, node) ==
    LET s0 == [Step(st, "locate", desc) EXCEPT !.out = Append(@, TextSubnodeOutput(node))]
        s1 == Step(s0, "validate", desc)
    IN  IF node.text = ""
        THEN IF is_required_v(desc.args)
             THEN Throw(s1, MissingRequiredText)
             ELSE s1
        ELSE [Step(s1, "parse", desc) EXCEPT !.data.text = node.text]

(***************************************************************************)
(* Node<name, Args...>::validate, as the error it throws (NoError: none)   *)
(* and the value it returns.                                               *)
(***************************************************************************)
\* NodeValidateError, had the name been compared for Required nodes only
NodeValidateErrorRequiredOnly(desc, node) ==
    IF node.null
    THEN IF is_required_v(desc.args) THEN MissingRequiredNode(desc.name) ELSE NoError
    ELSE IF is_required_v(desc.args) /\ desc.name # node.name
         THEN NodeNameMismatch(desc.name, node.name) ELSE NoError

NodeValidateError(desc, node) ==
    IF node.null
    THEN IF is_required_v(desc.args) THEN MissingRequiredNode(desc.name) ELSE NoError
    ELSE IF desc.name # node.name THEN NodeNameMismatch(desc.name, node.name) ELSE NoError

NodeValidateResult(desc, node) == ~node.null

RECURSIVE parse_subnodes(_, _, _, _)
RECURSIVE NodeParse(_, _, _)
RECURSIVE NodeListParse(_, _, _, _)

\* Node::parse: the record takes the descriptor's name, then the arguments
\* are walked against the same handle
NodeParse(desc, st, node) ==
    parse_subnodes([Step(st, "parse", desc) EXCEPT !.data.name = desc.name],
                   node, desc.args, 1)

\* NodeList::parse over the located children from the i-th on
NodeListParse(list, st, kids, i) ==
    IF ~Running(st) \/ i > Len(kids) THEN st
    ELSE LET name == NodeName(list)
             sub  == NodeParse(list.args[1], [st EXCEPT !.data = NodeData], kids[i])
             kept == [sub EXCEPT !.data =
                         [st.data EXCEPT !.subnodes[name] = Append(@, sub.data)]]
         IN  NodeListParse(list, kept, kids, i + 1)

\* NodeList::validate: the inner Node::validate of every located child
NodeListValidateError(list, kids) ==
    LET bad == {i \in 1..Len(kids) : NodeValidateError(list.args[1], kids[i]) # NoError}
    IN  IF bad = {} THEN NoError
        ELSE NodeValidateError(list.args[1], kids[CHOOSE i \in bad : \A j \in bad : i <= j])

\* one descriptor of parse_subnodes: subnode, validate and, if it held, parse
DescWalk(desc, st, node) ==
    CASE desc.kind = "Required" ->
           Step(Step(Step(st, "locate", desc), "validate", desc), "parse", desc)
      [] desc.kind = "Attribute" -> AttributeWalk(desc, st, node)
      [] desc.kind = "Text" -> TextWalk(desc, st, node)
      [] desc.kind = "Node" ->
           LET sub == child(node, desc.name)
               s1  == Step(Step(st, "locate", desc), "validate", desc)
               e   == NodeValidateError(desc, sub)
           IN  IF e # NoError THEN Throw(s1, e)
               ELSE IF NodeValidateResult(desc, sub) THEN NodeParse(desc, s1, sub)
               ELSE s1
      [] desc.kind = "NodeList" ->
           LET kids == children(node, NodeName(desc))
               s1   == Steps(Step(Step(st, "locate", desc), "validate", desc),
                             "validate", desc.args[1], Len(kids))
               e    == NodeListValidateError(desc, kids)
               s2   == [Step(s1, "parse", desc) EXCEPT !.data.subnodes =
                           IF NodeName(desc) \in DOMAIN @ THEN @
                           ELSE Put(@, NodeName(desc), <<>>)]
           IN  IF e # NoError THEN Throw(s1, e)
               ELSE NodeListParse(desc, s2, kids, 1)

\* parse_subnodes: the descriptors from the i-th on, in declared order
parse_subnodes(st, node, descs, i) ==
    IF ~Running(st) \/ i > Len(descs) THEN st
    ELSE parse_subnodes(DescWalk(descs[i], st, node), node, descs, i + 1)

(***************************************************************************)
(* parse(s, desc).  The document text is what load_buffer makes of it: the *)
(* (possibly partial) tree and whether the text was well-formed.  The      *)
(* result of load_buffer is not looked at, and neither is the value of the *)
(* root's validate.                                                        *)
(***************************************************************************)
document_element(doc) == doc.root

parse(doc, desc) ==
    LET root == document_element(doc)
        s1   == Step(Walk(NodeData), "validate", desc)
        e    == NodeValidateError(desc, root)
    IN  IF e # NoError THEN Throw(s1, e)
        ELSE NodeParse(desc, s1, root)

(***************************************************************************)
(* serialize.  The state a serialize call threads through: the handle      *)
(* being filled and the exception in flight.                               *)
(***************************************************************************)
Build(node, err) == [node |-> node, err |-> err]

RECURSIVE serialize_subnodes(_, _, _, _)
RECURSIVE NodeSerialize(_, _, _)
RECURSIVE NodeListSerialize(_, _, _, _)

\* Node::serialize: a child named after the record is appended and filled,
\* then validated against the descriptor
NodeSerialize(desc, b, data) ==
    LET made == serialize_subnodes(Build(Element(data.name, EmptyMap, "", <<>>), b.err),
                                   data, desc.args, 1)
        e    == NodeValidateError(desc, made.node)
    IN  Build(append_child(b.node, made.node),
              IF made.err # NoError THEN made.err ELSE e)

\* NodeList::serialize over the stored records from the i-th on
NodeListSerialize(list, b, recs, i) ==
    IF b.err # NoError \/ i > Len(recs) THEN b
    ELSE NodeListSerialize(list, NodeSerialize(list.args[1], b, recs[i]), recs, i + 1)

\* one descriptor's serialize against the parent handle and the record
DescSerialize(desc, b, data) ==
    CASE desc.kind = "Required" -> b
      [] desc.kind = "Attribute" ->
           IF desc.name \in DOMAIN data.attributes
           THEN [b EXCEPT !.node.attrs = Put(@, desc.name, data.attributes[desc.name])]
           ELSE b
      [] desc.kind = "Text" -> [b EXCEPT !.node.text = data.text]
      [] desc.kind = "Node" -> NodeSerialize(desc, b, data)
      [] desc.kind = "NodeList" ->
           IF NodeName(desc) \in DOMAIN data.subnodes
           THEN NodeListSerialize(desc, b, data.subnodes[NodeName(desc)], 1)
           ELSE b

\* serialize_subnodes: the descriptors from the i-th on, in declared order
serialize_subnodes(b, data, descs, i) ==
    IF b.err # NoError \/ i > Len(descs) THEN b
    ELSE serialize_subnodes(DescSerialize(descs[i], b, data), data, descs, i + 1)

\* serialize, had the root handle not been validated
serializeUnchecked(data, desc) ==
    LET made == serialize_subnodes(Build(Element(data.name, EmptyMap, "", <<>>), NoError),
                                   data, desc.args, 1)
    IN  [doc |-> [root |-> made.node, wellFormed |-> TRUE], err |-> made.err]

\* serialize(data, desc): the printed document is the tree that was built
serialize(data, desc) ==
    LET made == serialize_subnodes(Build(Element(data.name, EmptyMap, "", <<>>), NoError),
                                   data, desc.args, 1)
        e    == NodeValidateError(desc, made.node)
    IN  [doc |-> [root |-> made.node, wellFormed |-> TRUE],
         err |-> IF made.err # NoError THEN made.err ELSE e]

(***************************************************************************)
(* The schemas: the shapes main's schema is one of.  A root Node holding,  *)
(* in this order, the Required marker or not, a key attribute and its      *)
(* children: none, a NodeList of data nodes, a data Node declared          *)
(* directly, or a NodeList of data nodes beside an item Node.  A data node *)
(* holds an id attribute or not and a Text.                                *)
(***************************************************************************)
Marks == {<<>>, <<Required>>}

AttrParts(name) == {<<>>, <<Attribute(name, <<>>)>>, <<Attribute(name, <<Required>>)>>}

InnerNodes == {Node("data", m \o a \o <<t>>) :
                  m \in Marks, a \in AttrParts("id"), t \in {Text(<<>>), Text(<<Required>>)}}

ChildParts == {<<>>}
                  \cup {<<NodeList(n)>> : n \in InnerNodes}
                  \cup {<<n>> : n \in InnerNodes}
                  \cup {<<NodeList(n), Node("item", <<>>)>> : n \in InnerNodes}

Schemas == {Node("root", m \o <<a>> \o c) :
               m \in Marks,
               a \in {Attribute("key", <<>>), Attribute("key", <<Required>>)},
               c \in ChildParts}

(***************************************************************************)
(* The documents load_buffer can hand over: a root element with up to      *)
(* MaxChildren children, a document element of another name, or, for text  *)
(* that is not well-formed, the part of the tree built before the error.   *)
(***************************************************************************)
AttrValues == {"1"}

Texts == {"", "T"}

AttrMaps(name) == {EmptyMap} \cup {Put(EmptyMap, name, v) : v \in AttrValues}

Leaves == {Element("data", a, t, <<>>) : a \in AttrMaps("id"), t \in Texts}
              \cup {Element("item", EmptyMap, "", <<>>)}

ChildSeqs(n) == UNION {[1..k -> Leaves] : k \in 0..n}

Roots(name, n) == {Element(name, a, "", cs) : a \in AttrMaps("key"), cs \in ChildSeqs(n)}

Documents == {[root |-> r, wellFormed |-> TRUE] :
                 r \in Roots("root", MaxChildren) \cup Roots("wrong", 1)}
                 \cup {[root |-> r, wellFormed |-> FALSE] :
                          r \in Roots("root", 1) \cup {NullNode}}

(***************************************************************************)
(* The records a caller can hand to serialize without parsing first.       *)
(***************************************************************************)
LeafRecords == {[name |-> n, text |-> t, subnodes |-> EmptyMap, attributes |-> a] :
                   n \in {"data", "item"}, t \in Texts, a \in AttrMaps("id")}

RecordSeqs(n) == UNION {[1..k -> LeafRecords] : k \in 0..n}

Records == {[name |-> n, text |-> t, subnodes |-> s, attributes |-> a] :
               n \in {"root", "data"}, t \in Texts, a \in AttrMaps("key"),
               s \in {EmptyMap} \cup {Put(EmptyMap, "data", rs) : rs \in RecordSeqs(MaxRecChildren)}}

(***************************************************************************)
(* Editing a document: taking out one thing a Required descriptor asks for.*)
(***************************************************************************)
RemoveAttr(node, name) ==
    [node EXCEPT !.attrs = [x \in (DOMAIN node.attrs) \ {name} |-> node.attrs[x]]]

RemoveAt(seq, k) == [i \in 1..(Len(seq) - 1) |-> IF i < k THEN seq[i] ELSE seq[i + 1]]

NoRemoval == [what |-> "none", expect |-> NoError]

\* the required attributes and text of one element, each taken out
ElementRemovals(args, elem) ==
    {[elem |-> RemoveAttr(elem, args[i].name), what |-> "attribute",
      expect |-> MissingRequiredAttribute(args[i].name)] :
        i \in {j \in 1..Len(args) : /\ args[j].kind = "Attribute"
                                    /\ is_required_v(args[j].args)
                                    /\ args[j].name \in DOMAIN elem.attrs}}
    \cup
    {[elem |-> [elem EXCEPT !.text = ""], what |-> "text", expect |-> MissingRequiredText] :
        i \in {j \in 1..Len(args) : /\ args[j].kind = "Text"
                                    /\ is_required_v(args[j].args)
                                    /\ elem.text # ""}}

\* the removals inside the children one root argument locates, and of them
ChildRemovals(desc, root) ==
    LET inner == IF desc.kind = "NodeList" THEN desc.args[1] ELSE desc
        named == {k \in 1..Len(root.children) : root.children[k].name = inner.name}
        front == {k \in named : \A j \in named : k <= j}
        at    == IF desc.kind = "NodeList" THEN named ELSE front
    IN  IF desc.kind \notin {"Node", "NodeList"} THEN {}
        ELSE UNION {
               {[root |-> [root EXCEPT !.children[k] = r.elem],
                 what |-> r.what, expect |-> r.expect] :
                    r \in ElementRemovals(inner.args, root.children[k])}
               \cup
               (IF is_required_v(inner.args)
                THEN {[root |-> IF desc.kind = "NodeList"
                                THEN [root EXCEPT !.children = RemoveAt(@, k)]
                                ELSE [root EXCEPT !.children =
                                         SelectSeq(@, LAMBDA c : c.name # inner.name)],
                       what |-> IF desc.kind = "NodeList" THEN "listnode" ELSE "node",
                       expect |-> MissingRequiredNode(inner.name)]}
                ELSE {})
               : k \in at}

Removals(desc, d) ==
    IF d.root.null THEN {}
    ELSE {[doc |-> [d EXCEPT !.root = r.elem], what |-> r.what, expect |-> r.expect] :
             r \in ElementRemovals(desc.args, d.root)}
         \cup
         {[doc |-> [d EXCEPT !.root = r.root], what |-> r.what, expect |-> r.expect] :
             r \in UNION {ChildRemovals(desc.args[i], d.root) : i \in 1..Len(desc.args)}}
         \cup
         (IF is_required_v(desc.args)
          THEN {[doc |-> [root |-> NullNode, wellFormed |-> FALSE], what |-> "root",
                 expect |-> MissingRequiredNode(desc.name)]}
          ELSE {})

NoDocument == [root |-> NullNode, wellFormed |-> FALSE]

(***************************************************************************)
(* The program: main's loop body, one document at a time.                  *)
(***************************************************************************)
\* schema:  the root descriptor (xml)
\* src:     whether the run starts from document text or from a NodeData
\* doc:     the document handed to parse, as load_buffer built it
\* pc:      where the run stands: start, parsed, failed, given, serialized,
\*          serfailed, reparsed, refailed
\* record:  the NodeData at hand (root)
\* err:     the exception the last call threw, or NoError
\* out:     what has been written to std::cout by parse and serialize
\* log:     the descriptor steps of the last parse
\* output:  the document serialize printed
\* first:   the record that was serialized, kept when its text is parsed again
\* removed: what was taken out of the document, and the error that calls for
VARIABLES schema, src, doc, pc, record, err, out, log, output, first, removed

vars == <<schema, src, doc, pc, record, err, out, log, output, first, removed>>

Init ==
    /\ schema \in Schemas
    /\ \/ /\ src = "text"
          /\ doc \in Documents
          /\ pc = "start"
          /\ record = NodeData
       \/ /\ src = "record"
          /\ doc = NoDocument
          /\ pc = "given"
          /\ record \in Records
    /\ err = NoError
    /\ out = <<>>
    /\ log = <<>>
    /\ output = NoDocument
    /\ first = NodeData
    /\ removed = NoRemoval

\* auto root = parse(s, xml), or the exception it throws
Parse ==
    /\ pc = "start"
    /\ LET st == parse(doc, schema)
       IN  /\ pc' = IF st.err = NoError THEN "parsed" ELSE "failed"
           /\ record' = IF st.err = NoError THEN st.data ELSE NodeData
           /\ err' = st.err
           /\ out' = st.out
           /\ log' = st.log
    /\ UNCHANGED <<schema, src, doc, output, first, removed>>

\* serialize(root, xml), or the exception it throws
Serialize ==
    /\ pc \in {"parsed", "given"}
    /\ LET r == serialize(record, schema)
       IN  /\ pc' = IF r.err = NoError THEN "serialized" ELSE "serfailed"
           /\ output' = IF r.err = NoError THEN r.doc ELSE NoDocument
           /\ err' = r.err
    /\ UNCHANGED <<schema, src, doc, record, out, log, first, removed>>

\* the serialized text parsed again under the same schema
Reparse ==
    /\ pc = "serialized"
    /\ src = "text"
    /\ LET st == parse(output, schema)
       IN  /\ pc' = IF st.err = NoError THEN "reparsed" ELSE "refailed"
           /\ record' = IF st.err = NoError THEN st.data ELSE NodeData
           /\ err' = st.err
           /\ out' = out \o st.out
           /\ log' = st.log
    /\ first' = record
    /\ UNCHANGED <<schema, src, doc, output, removed>>

\* an accepted document is edited and handed to parse again
Remove ==
    /\ pc = "parsed"
    /\ src = "text"
    /\ removed = NoRemoval
    /\ \E r \in Removals(schema, doc) :
          /\ doc' = r.doc
          /\ removed' = [what |-> r.what, expect |-> r.expect]
    /\ pc' = "start"
    /\ record' = NodeData
    /\ out' = <<>>
    /\ log' = <<>>
    /\ UNCHANGED <<schema, src, err, output, first>>

Next == Parse \/ Serialize \/ Reparse \/ Remove

Spec == Init /\ [][Next]_vars

(***************************************************************************)
(* What the properties below speak of.                                     *)
(***************************************************************************)
\* the state holds the outcome of parse(doc, schema)
AfterParse == src = "text" /\ pc \in {"parsed", "failed"}

\* the state holds the outcome of serialize(record, schema)
AfterSerialize == pc \in {"serialized", "serfailed"}

Lists(desc) == {desc.args[i] : i \in {j \in 1..Len(desc.args) : desc.args[j].kind = "NodeList"}}

DirectNodes(desc) == {desc.args[i] : i \in {j \in 1..Len(desc.args) : desc.args[j].kind = "Node"}}

RequiredAttributes(desc) ==
    {desc.args[i].name : i \in {j \in 1..Len(desc.args) :
        desc.args[j].kind = "Attribute" /\ is_required_v(desc.args[j].args)}}

RECURSIVE DeclaredAttributes(_)
\* the names of the Attribute descriptors anywhere in the schema
DeclaredAttributes(desc) ==
    {desc.args[i].name : i \in {j \in 1..Len(desc.args) : desc.args[j].kind = "Attribute"}}
    \cup UNION {DeclaredAttributes(d) : d \in DirectNodes(desc)}
    \cup UNION {DeclaredAttributes(l.args[1]) : l \in Lists(desc)}

RECURSIVE DeclaredLists(_)
\* the child names of the NodeList descriptors anywhere in the schema
DeclaredLists(desc) ==
    {NodeName(l) : l \in Lists(desc)}
    \cup UNION {DeclaredLists(d) : d \in DirectNodes(desc)}
    \cup UNION {DeclaredLists(l.args[1]) : l \in Lists(desc)}

RECURSIVE RecordsOf(_)
\* a record and every record nested in it
RecordsOf(r) ==
    {r} \cup UNION {UNION {RecordsOf(r.subnodes[n][i]) : i \in 1..Len(r.subnodes[n])} :
                       n \in DOMAIN r.subnodes}

RECURSIVE Flatten(_)
Flatten(seqs) == IF seqs = <<>> THEN <<>> ELSE Head(seqs) \o Flatten(Tail(seqs))

RECURSIVE Violations(_, _)
\* every rule of a Node descriptor's arguments the handle breaks, in declared
\* order, list children in document order
Violations(desc, node) ==
    LET Of(d) ==
          CASE d.kind = "Required" -> <<>>
            [] d.kind = "Attribute" ->
                 IF is_required_v(d.args) /\ d.name \notin DOMAIN node.attrs
                 THEN <<MissingRequiredAttribute(d.name)>> ELSE <<>>
            [] d.kind = "Text" ->
                 IF is_required_v(d.args) /\ node.text = ""
                 THEN <<MissingRequiredText>> ELSE <<>>
            [] d.kind = "Node" ->
                 LET named == SelectSeq(node.children, LAMBDA c : c.name = d.name)
                 IN  IF named = <<>>
                     THEN IF is_required_v(d.args)
                          THEN <<MissingRequiredNode(d.name)>> ELSE <<>>
                     ELSE Violations(d, named[1])
            [] d.kind = "NodeList" ->
                 LET named == SelectSeq(node.children, LAMBDA c : c.name = d.args[1].name)
                 IN  Flatten([i \in 1..Len(named) |-> Violations(d.args[1], named[i])])
    IN  Flatten([i \in 1..Len(desc.args) |-> Of(desc.args[i])])

\* the rules a document breaks, the root's own first
DocumentViolations(desc, d) ==
    IF d.root.null /\ is_required_v(desc.args) THEN <<MissingRequiredNode(desc.name)>>
    ELSE IF ~d.root.null /\ d.root.name # desc.name
         THEN <<NodeNameMismatch(desc.name, d.root.name)>>
         ELSE Violations(desc, d.root)

\* the validate step that raises the error
RaisingStep(e) ==
    CASE e.kind = "MissingRequiredAttribute" -> <<"validate", "Attribute", e.name>>
      [] e.kind = "MissingRequiredText" -> <<"validate", "Text", "">>
      [] e.kind \in {"MissingRequiredNode", "NodeNameMismatch"} -> <<"validate", "Node", e.name>>

RECURSIVE NameMismatch(_, _)
\* some Node descriptor emits a record of another name
NameMismatch(desc, data) ==
    \/ data.name # desc.name
    \/ \E d \in DirectNodes(desc) : NameMismatch(d, data)
    \/ \E l \in Lists(desc) :
          /\ NodeName(l) \in DOMAIN data.subnodes
          /\ \E i \in 1..Len(data.subnodes[NodeName(l)]) :
                NameMismatch(l.args[1], data.subnodes[NodeName(l)][i])

\* the record the inner descriptor of a list builds from one child alone
RecordOfChild(list, kid) == NodeParse(list.args[1], Walk(NodeData), kid).data

(***************************************************************************)
(* C1. Round trip: a record a successful parse returned serializes, and    *)
(* the serialized text parses again into an equal record.                  *)
(***************************************************************************)
RoundTrip ==
    src = "text" =>
        /\ pc # "serfailed"
        /\ pc # "refailed"
        /\ (pc = "reparsed" => record = first)

\* the round trip under the schemas in which no Node is declared directly
\* inside another Node
RoundTripWithoutDirectNodes ==
    (src = "text" /\ DirectNodes(schema) = {}) =>
        /\ pc # "serfailed"
        /\ pc # "refailed"
        /\ (pc = "reparsed" => record = first)

(***************************************************************************)
(* C2. Required-field enforcement, as stated: taking out of an accepted    *)
(* document a required attribute, a required text or a child element whose *)
(* Node descriptor is Required makes parse fail with the MissingRequired    *)
(* error of that descriptor, wherever the descriptor sits, the inner Node  *)
(* of a list included.                                                      *)
(***************************************************************************)
RequiredFieldEnforcement ==
    (AfterParse /\ removed.what # "none") => (pc = "failed" /\ err = removed.expect)

(***************************************************************************)
(* C2, amended. Taking out of an accepted document a required attribute or *)
(* a required text (at the root, in a direct child node or in a child of a *)
(* list), the document element of a Required root, or every child of the   *)
(* name a directly declared Required Node locates makes parse fail with    *)
(* the MissingRequired error of that descriptor.  The inner Node of a list *)
(* is left out: the list takes any number of children.                     *)
(***************************************************************************)
RequiredFieldEnforcementWhereLocated ==
    (AfterParse /\ removed.what \in {"attribute", "text", "node", "root"})
        => (pc = "failed" /\ err = removed.expect)

\* the required text of a list's child was emptied and parse failed on it
RequiredTextOfListChildRemoved ==
    /\ AfterParse
    /\ removed.what = "text"
    /\ Lists(schema) # {}
    /\ pc = "failed"
    /\ err = MissingRequiredText

(***************************************************************************)
(* C3. Root name check: a document element of another name than the root   *)
(* descriptor's fails parse with NodeNameMismatch(declared, actual),       *)
(* Required or not, and nothing but the root's validate has run: no child  *)
(* descriptor was located, validated or parsed.                            *)
(***************************************************************************)
RootNameCheck ==
    (AfterParse /\ ~doc.root.null /\ doc.root.name # schema.name) =>
        /\ pc = "failed"
        /\ err = NodeNameMismatch(schema.name, doc.root.name)
        /\ log = <<<<"validate", "Node", schema.name>>>>

\* a wrongly named root that also lacks the required key, under a root that
\* is not Required
WrongRootLackingRequiredKey ==
    /\ AfterParse
    /\ pc = "failed"
    /\ doc.root.name = "wrong"
    /\ ~is_required_v(schema.args)
    /\ "key" \in RequiredAttributes(schema)
    /\ "key" \notin DOMAIN doc.root.attrs
    /\ err = NodeNameMismatch("root", "wrong")

(***************************************************************************)
(* C4. List ordering: under a schema with a list of n, the record of an    *)
(* accepted document holds under n one nested record per child named n,    *)
(* the i-th built from the i-th such child, and serialize emits as many    *)
(* children named n in the same order.                                     *)
(***************************************************************************)
ListOrdering ==
    \A l \in Lists(schema) :
        LET n    == NodeName(l)
            kids == children(doc.root, n)
            made == children(output.root, n)
        IN  /\ (AfterParse /\ pc = "parsed") =>
                  /\ n \in DOMAIN record.subnodes
                  /\ Len(record.subnodes[n]) = Len(kids)
                  /\ \A i \in 1..Len(kids) : record.subnodes[n][i] = RecordOfChild(l, kids[i])
            /\ (AfterSerialize /\ src = "text") =>
                  /\ pc = "serialized"
                  /\ Len(made) = Len(record.subnodes[n])
                  /\ \A i \in 1..Len(made) : RecordOfChild(l, made[i]) = record.subnodes[n][i]

\* the list ordering under the schemas in which no Node is declared directly
\* inside another Node
ListOrderingWithoutDirectNodes == DirectNodes(schema) = {} => ListOrdering

(***************************************************************************)
(* C5. Declared keys: in the record of a successful parse and in every     *)
(* record nested in it, each key of attributes is the name of an Attribute *)
(* descriptor of the schema and each key of subnodes the child name of a   *)
(* NodeList descriptor of the schema.                                      *)
(***************************************************************************)
DeclaredKeys ==
    (src = "text" /\ pc \in {"parsed", "reparsed"}) =>
        \A r \in RecordsOf(record) :
            /\ DOMAIN r.attributes \subseteq DeclaredAttributes(schema)
            /\ DOMAIN r.subnodes \subseteq DeclaredLists(schema)

\* an accepted document with an item child and an id attribute that the
\* schema declares nowhere, its data children in the record
UndeclaredPartsLeftOut ==
    /\ AfterParse
    /\ pc = "parsed"
    /\ "id" \notin DeclaredAttributes(schema)
    /\ "item" \notin DeclaredLists(schema)
    /\ \E i \in 1..Len(doc.root.children) : doc.root.children[i].name = "item"
    /\ \E i \in 1..Len(doc.root.children) : "id" \in DOMAIN doc.root.children[i].attrs
    /\ "data" \in DOMAIN record.subnodes
    /\ Len(record.subnodes["data"]) >= 2
    /\ "key" \in DOMAIN record.attributes

\* the error the collaborator is to surface for text that is not well-formed
MalformedInput == [kind |-> "MalformedInput", name |-> "", actual |-> ""]

(***************************************************************************)
(* C6. Malformed input: when load_buffer reports text that is not          *)
(* well-formed, parse fails with MalformedInput and returns no record.     *)
(***************************************************************************)
MalformedInputFails ==
    (AfterParse /\ ~doc.wellFormed) => (pc = "failed" /\ err = MalformedInput)

(***************************************************************************)
(* C7. Fail-fast error order: parse succeeds exactly when the document     *)
(* breaks no rule; otherwise its one error is that of the first rule       *)
(* broken in the walk order, and the last step taken is the validate that  *)
(* raised it.                                                              *)
(***************************************************************************)
FailFast ==
    AfterParse =>
        LET broken == DocumentViolations(schema, doc)
        IN  /\ (broken = <<>>) <=> (pc = "parsed")
            /\ pc = "parsed" => err = NoError
            /\ pc = "failed" =>
                  /\ err = broken[1]
                  /\ log[Len(log)] = RaisingStep(err)

\* parse failed on a document that breaks two rules or more
SeveralRulesBroken ==
    /\ AfterParse
    /\ pc = "failed"
    /\ Len(DocumentViolations(schema, doc)) >= 2
    /\ err # DocumentViolations(schema, doc)[Len(DocumentViolations(schema, doc))]

(***************************************************************************)
(* C8. Record name: the record of a successful parse bears the document    *)
(* element's tag, the root descriptor's name, and every record nested      *)
(* under subnodes[n] bears the name n.                                     *)
(***************************************************************************)
RecordName ==
    (AfterParse /\ pc = "parsed") =>
        /\ record.name = schema.name
        /\ ~doc.root.null => record.name = doc.root.name
        /\ \A n \in DOMAIN record.subnodes :
              \A i \in 1..Len(record.subnodes[n]) : record.subnodes[n][i].name = n

(***************************************************************************)
(* C9. No output: parse and serialize write nothing to an output stream.   *)
(***************************************************************************)
NoOutput == out = <<>>

(***************************************************************************)
(* C10. Serialize checks element names only: serialize returns text or     *)
(* fails with NodeNameMismatch, and fails exactly when a Node descriptor   *)
(* emits a record of another name; it never fails with a MissingRequired   *)
(* error.                                                                  *)
(***************************************************************************)
SerializeChecksNamesOnly ==
    AfterSerialize =>
        /\ err.kind \in {"none", "NodeNameMismatch"}
        /\ (pc = "serfailed") <=> (err # NoError)
        /\ (pc = "serfailed") <=> NameMismatch(schema, record)

\* a hand-built record without the required key and with a nested record
\* without text was serialized
RecordLackingRequiredSerialized ==
    /\ src = "record"
    /\ pc = "serialized"
    /\ "key" \in RequiredAttributes(schema)
    /\ "key" \notin DOMAIN record.attributes
    /\ \E l \in Lists(schema) :
          /\ \E i \in 1..Len(l.args[1].args) :
                l.args[1].args[i].kind = "Text" /\ is_required_v(l.args[1].args[i].args)
          /\ "data" \in DOMAIN record.subnodes
          /\ \E i \in 1..Len(record.subnodes["data"]) : record.subnodes["data"][i].text = ""
          /\ Len(output.root.children) = Len(record.subnodes["data"])

====
